---- MODULE Spec2Model ----
(***************************************************************************)
(* A model of rvnsqlite: the typed statement layer (src/src/sqlite.cpp),   *)
(* the lazy Query (src/include/query.h) and the metadata envelope of       *)
(* ResourceDatabase (src/include/resource_database.h,                      *)
(* src/src/resource_database.cpp).                                         *)
(*                                                                         *)
(* Five specifications share the module's variables:                       *)
(*   SpecBind    the unsigned binding policies and the column getters,     *)
(*   SpecStmt    the life of a statement: step, reset, clear_bindings,     *)
(*   SpecQuery   the Query iterator protocol,                              *)
(*   Spec        the envelope lifecycle of ResourceDatabase,               *)
(*   SpecStored  the same lifecycle on files that already hold a table.    *)
(* Each leaves the variables it does not use at their idle values.         *)
(***************************************************************************)
EXTENDS Integers, Sequences, FiniteSets, TLC

VARIABLES
    \* ---- SpecBind: one insert statement and the table it fills
    args,        \* the two unsigned 64-bit inputs of the run
    bindings,    \* parameter index -> what is bound (engine value and its origin)
    stmtState,   \* cursor of the insert statement: "unstepped" | "done"
    tbl,         \* rows of table test(x int8), in insertion order
    fetchRow,    \* cursor of the fetch statement: 0 unstepped, i on row i, -1 done
    out,         \* what the last Statement call returned or threw
    \* ---- SpecQuery: one Query over a fetch statement
    rows,        \* the result set of the wrapped statement
    cursor,      \* steps the statement has completed: on row i, or Len+1 once Done
    qstate,      \* "unbuilt" | "built" | "failed"
    current_,    \* Query::current_ (optional<T>)
    fetch_stmt_, \* Query::fetch_stmt_ holds a statement
    it,          \* query_ of the caller's iterator: "null" | "this"
    decoded,     \* the values f_ returned, in call order
    yielded,     \* the values the caller read through operator*
    taken,       \* the current position was already read
    advances,    \* completed operator++ calls
    qout,        \* what the last Query call returned or threw
    \* ---- Spec: one database and the ResourceDatabase over it
    store,       \* the database: kind, whether it exists, its _metadata table
    conn,        \* who owns the engine handle, and its open mode
    rdb,         \* the ResourceDatabase instance the caller holds (md_, md_version_)
    written,     \* the Metadata of the last successful envelope write
    last,        \* what the last ResourceDatabase call returned or threw
    \* ---- SpecOwn: Database objects and the engine handles they own
    alive,       \* the Database objects that are constructed and not yet destroyed
    db_,         \* Database::db_ of each object: the handle it owns, 0 for nullptr
    nhandles,    \* engine handles sqlite3_open_v2 has allocated so far
    closed,      \* handle -> number of sqlite3_close calls made on it
    raw          \* the raw pointers release() has handed to the caller

bindVars == <<args, bindings, stmtState, tbl, fetchRow, out>>
queryVars == <<rows, cursor, qstate, current_, fetch_stmt_, it, decoded, yielded, taken,
               advances, qout>>
rdbVars == <<store, conn, rdb, written, last>>
ownVars == <<alive, db_, nhandles, closed, raw>>
vars == <<bindVars, queryVars, rdbVars, ownVars>>

(***************************************************************************)
(* Integer widths.  The engine's integer is a signed 64-bit value; the     *)
(* model keeps the two's-complement arithmetic and scales the widths down. *)
(***************************************************************************)
Bits64 == 4
Bits32 == 2

RECURSIVE Pow2(_)
Pow2(n) == IF n = 0 THEN 1 ELSE 2 * Pow2(n - 1)

UINT64_MOD == Pow2(Bits64)
UINT64_MAX == UINT64_MOD - 1
INT64_MAX == Pow2(Bits64 - 1) - 1
INT64_MIN == -Pow2(Bits64 - 1)
UINT32_MOD == Pow2(Bits32)
UINT32_MAX == UINT32_MOD - 1
INT32_MAX == Pow2(Bits32 - 1) - 1

U64 == 0..UINT64_MAX
I64 == INT64_MIN..INT64_MAX
U32 == 0..UINT32_MAX

\* static_cast<sqlite_int64>(std::uint64_t)
ToInt64(u) == IF u > INT64_MAX THEN u - UINT64_MOD ELSE u
\* static_cast<std::uint64_t>(std::int64_t)
ToUint64(i) == i % UINT64_MOD
\* static_cast<int>(std::uint32_t)
ToInt32(u) == IF u > INT32_MAX THEN u - UINT32_MOD ELSE u
\* static_cast<std::uint32_t>(int)
ToUint32(i) == i % UINT32_MOD

signed_to_unsigned_offset == (1 + INT64_MAX) % UINT64_MOD

PlainCastToSigned(value) == ToInt64(value)
unsigned_to_signed_int64(value) == ToInt64((value - signed_to_unsigned_offset) % UINT64_MOD)

PlainCastToUnsigned(value) == ToUint64(value)
signed_to_unsigned_int64(value) == (ToUint64(value) + signed_to_unsigned_offset) % UINT64_MOD

(***************************************************************************)
(* Engine values.                                                          *)
(***************************************************************************)
NullCell == [t |-> "null", i |-> 0, s |-> <<>>]
IntCell(i) == [t |-> "int", i |-> i, s |-> <<>>]
TextCell(s) == [t |-> "text", i |-> 0, s |-> s]

\* sqlite3_column_int64: the engine's integer view of a value
RECURSIVE DigitsValue(_, _)
DigitsValue(s, acc) ==
    IF s = <<>> \/ Head(s) \notin 48..57 THEN acc
    ELSE DigitsValue(Tail(s), (acc * 10 + (Head(s) - 48)) % UINT64_MOD)

sqlite3_column_int64(cell) ==
    CASE cell.t = "int" -> cell.i
      [] cell.t = "text" -> ToInt64(DigitsValue(cell.s, 0))
      [] OTHER -> 0

(***************************************************************************)
(* Statement: binding.  The insert statement of the tests has one          *)
(* parameter; the engine refuses an index outside 1..NParams and a bind on *)
(* a statement stepped since its last reset.                               *)
(***************************************************************************)
NParams == 1
Indexes == 0..(NParams + 1)

Unbound == [cell |-> NullCell, policy |-> "none", k |-> 0]

sqlite3_bind_int64(index) ==
    IF stmtState # "unstepped" THEN "MISUSE"
    ELSE IF index \notin 1..NParams THEN "RANGE"
    ELSE "OK"

\* bind_arg_cast that saturates at INT64_MAX instead of wrapping
bind_arg_cast_saturating(index, value) ==
    [err |-> IF sqlite3_bind_int64(index) # "OK" THEN "DatabaseError" ELSE "ok",
     cell |-> IntCell(IF value > INT64_MAX THEN INT64_MAX ELSE value)]
\* Statement::bind_arg_cast(int, std::uint64_t, name)
bind_arg_cast(index, value) ==
    [err |-> IF sqlite3_bind_int64(index) # "OK" THEN "DatabaseError" ELSE "ok",
     cell |-> IntCell(ToInt64(value))]

bind_arg_throw_unchecked(index, value) == bind_arg_cast(index, value)
bind_arg_throw(index, value) ==
    IF value > ToUint64(INT64_MAX)
    THEN [err |-> "OutOfBoundsError", cell |-> NullCell]
    ELSE [err |-> IF sqlite3_bind_int64(index) # "OK" THEN "DatabaseError" ELSE "ok",
          cell |-> IntCell(ToInt64(value))]

bind_arg_slide(index, value) ==
    [err |-> IF sqlite3_bind_int64(index) # "OK" THEN "DatabaseError" ELSE "ok",
     cell |-> IntCell(unsigned_to_signed_int64(value))]

BindCall(policy, index, value) ==
    CASE policy = "cast" -> bind_arg_cast(index, value)
      [] policy = "throw" -> bind_arg_throw(index, value)
      [] policy = "slide" -> bind_arg_slide(index, value)

Policies == {"cast", "throw", "slide"}

\* The parameter names callers pass to a bind.
Names == {"foo", "type"}

\* The text of the DatabaseError a failed bind throws, in its pieces: prefix,
\* the caller's name, separator and sqlite3_errstr of the result code.
BindMessageWithoutName(prefix, name, rc) == <<prefix, ": ", rc>>
BindMessage(prefix, name, rc) == <<prefix, name, ": ", rc>>

\* A bind_arg_* call on the insert statement.  The value is the run's next
\* input: the first while the table is empty, the second after one insert.
NextArg == args[Len(tbl) + 1]

Bind(policy, index, name) ==
    LET r == BindCall(policy, index, NextArg) IN
    /\ Len(tbl) < Len(args)
    /\ bindings' = IF r.err = "ok"
                   THEN [bindings EXCEPT ![index] =
                            [cell |-> r.cell, policy |-> policy, k |-> Len(tbl) + 1]]
                   ELSE bindings
    /\ out' = [op |-> policy, err |-> r.err, ref |-> index, val |-> 0,
               changed |-> (bindings' # bindings),
               rc |-> IF r.err = "OutOfBoundsError" THEN "none"
                      ELSE sqlite3_bind_int64(index),
               msg |-> IF r.err = "DatabaseError"
                       THEN BindMessage("Can't bind ", name, sqlite3_bind_int64(index))
                       ELSE <<>>]
    /\ UNCHANGED <<args, stmtState, tbl, fetchRow>>
    /\ UNCHANGED <<queryVars, rdbVars, ownVars>>

\* bind_arg_throw for std::uint32_t testing against the 64-bit limit
bind_arg_throw_u32_wide_check(index, value) ==
    IF value > ToUint64(INT64_MAX)
    THEN [err |-> "OutOfBoundsError", cell |-> NullCell]
    ELSE [err |-> IF sqlite3_bind_int64(index) # "OK" THEN "DatabaseError" ELSE "ok",
          cell |-> IntCell(ToInt32(value))]
\* Statement::bind_arg_throw(int, std::uint32_t, name): the value is tested
\* against the largest int and bound as static_cast<int>(value)
bind_arg_throw_u32(index, value) ==
    IF value > INT32_MAX
    THEN [err |-> "OutOfBoundsError", cell |-> NullCell]
    ELSE [err |-> IF sqlite3_bind_int64(index) # "OK" THEN "DatabaseError" ELSE "ok",
          cell |-> IntCell(ToInt32(value))]

\* A bind_arg_throw call with a 32-bit unsigned value on the insert
\* statement; out.val keeps the value that was passed.
BindThrow32(index, value, name) ==
    LET r == bind_arg_throw_u32(index, value) IN
    /\ Len(tbl) < Len(args)
    /\ bindings' = IF r.err = "ok"
                   THEN [bindings EXCEPT ![index] =
                            [cell |-> r.cell, policy |-> "throw_u32", k |-> Len(tbl) + 1]]
                   ELSE bindings
    /\ out' = [op |-> "throw_u32", err |-> r.err, ref |-> index, val |-> value,
               changed |-> (bindings' # bindings),
               rc |-> IF r.err = "OutOfBoundsError" THEN "none"
                      ELSE sqlite3_bind_int64(index),
               msg |-> IF r.err = "DatabaseError"
                       THEN BindMessage("Can't bind ", name, sqlite3_bind_int64(index))
                       ELSE <<>>]
    /\ UNCHANGED <<args, stmtState, tbl, fetchRow>>
    /\ UNCHANGED <<queryVars, rdbVars, ownVars>>

\* Statement::bind_null on the insert statement.
bind_null(index, name) ==
    LET rc == sqlite3_bind_int64(index) IN
    /\ Len(tbl) < Len(args)
    /\ bindings' = IF rc = "OK"
                   THEN [bindings EXCEPT ![index] =
                            [cell |-> NullCell, policy |-> "null", k |-> Len(tbl) + 1]]
                   ELSE bindings
    /\ out' = [op |-> "bind_null", err |-> IF rc = "OK" THEN "ok" ELSE "DatabaseError",
               ref |-> index, val |-> 0, changed |-> (bindings' # bindings), rc |-> rc,
               msg |-> IF rc = "OK" THEN <<>>
                       ELSE BindMessage("Can't bind null to ", name, rc)]
    /\ UNCHANGED <<args, stmtState, tbl, fetchRow>>
    /\ UNCHANGED <<queryVars, rdbVars, ownVars>>

(***************************************************************************)
(* Statement: step and reset.                                              *)
(***************************************************************************)
StepOutcomeMisuseAsError(rc) ==
    CASE rc = "ROW" -> "Row"
      [] rc = "DONE" -> "Done"
      [] rc = "BUSY" -> "DatabaseBusy"
      [] OTHER -> "DatabaseError"
StepOutcome(rc) ==
    CASE rc = "ROW" -> "Row"
      [] rc = "DONE" -> "Done"
      [] rc = "BUSY" -> "DatabaseBusy"
      [] rc = "MISUSE" -> "logic_error"
      [] OTHER -> "DatabaseError"

\* What the engine does with a step on a statement that returned DONE and was
\* not reset depends on its build: it resets the statement itself and runs it
\* again (autoreset), or it refuses with MISUSE.
Builds == {"autoreset", "misuse"}

\* Failures the engine can report on a step instead of running it.
StepFaults == {"none", "BUSY", "ERROR"}

\* sqlite3_step on "insert into test values (?)": the engine inserts the
\* bound row and reports DONE.  A statement that returned DONE or an error
\* is halted until it is reset.
sqlite3_step_insert(build, fault) ==
    IF stmtState \in {"done", "failed"} /\ build = "misuse" THEN "MISUSE"
    ELSE IF fault # "none" THEN fault
    ELSE "DONE"

\* Statement::step on the insert statement.
InsertStep(build, fault) ==
    LET rc == sqlite3_step_insert(build, fault) IN
    /\ Len(tbl) < Len(args)
    /\ tbl' = IF rc = "DONE" THEN Append(tbl, bindings[1]) ELSE tbl
    /\ stmtState' = CASE rc = "DONE" -> "done"
                       [] rc = "ERROR" -> "failed"
                       [] OTHER -> stmtState
    /\ out' = [op |-> "step", err |-> StepOutcome(rc), ref |-> 0, val |-> 0,
               changed |-> FALSE, rc |-> rc, msg |-> <<>>]
    /\ UNCHANGED <<args, bindings, fetchRow>>
    /\ UNCHANGED <<queryVars, rdbVars, ownVars>>

\* sqlite3_reset: the statement is ready again; the result is the error of
\* the statement's last step, if that step failed.
sqlite3_reset_insert == IF stmtState = "failed" THEN "ERROR" ELSE "OK"

InsertResetClearing ==
    /\ stmtState \in {"done", "failed"}
    /\ stmtState' = "unstepped"
    /\ bindings' = [i \in 1..NParams |-> Unbound]
    /\ out' = [op |-> "reset", err |-> "ok", ref |-> 0, val |-> 0, changed |-> FALSE,
               rc |-> sqlite3_reset_insert, msg |-> <<>>]
    /\ UNCHANGED <<args, tbl, fetchRow>>
    /\ UNCHANGED <<queryVars, rdbVars, ownVars>>

\* Statement::reset on the insert statement: the bindings stay, and the
\* result of sqlite3_reset is dropped.
InsertReset ==
    /\ stmtState \in {"done", "failed"}
    /\ stmtState' = "unstepped"
    /\ out' = [op |-> "reset", err |-> "ok", ref |-> 0, val |-> 0, changed |-> FALSE,
               rc |-> sqlite3_reset_insert, msg |-> <<>>]
    /\ UNCHANGED <<args, bindings, tbl, fetchRow>>
    /\ UNCHANGED <<queryVars, rdbVars, ownVars>>

\* Statement::clear_bindings on the insert statement: every parameter is
\* NULL again; the cursor is not touched.
clear_bindings ==
    /\ Len(tbl) < Len(args)
    /\ bindings' = [i \in 1..NParams |-> Unbound]
    /\ out' = [op |-> "clear_bindings", err |-> "ok", ref |-> 0, val |-> 0,
               changed |-> (bindings' # bindings), rc |-> "OK", msg |-> <<>>]
    /\ UNCHANGED <<args, stmtState, tbl, fetchRow>>
    /\ UNCHANGED <<queryVars, rdbVars, ownVars>>

\* sqlite3_step on "select x from test": the next row, or DONE after the
\* last; fetchRow is 0 before the first step, -1 once DONE was returned and
\* -2 once a step failed.
sqlite3_step_select(build, fault) ==
    IF fetchRow < 0 /\ build = "misuse" THEN "MISUSE"
    ELSE IF fault # "none" THEN fault
    ELSE IF fetchRow < 0 THEN (IF Len(tbl) > 0 THEN "ROW" ELSE "DONE")
    ELSE IF fetchRow < Len(tbl) THEN "ROW"
    ELSE "DONE"

\* Statement::step on the fetch statement.
FetchStep(build, fault) ==
    LET rc == sqlite3_step_select(build, fault) IN
    /\ Len(tbl) = Len(args)
    /\ fetchRow' = CASE rc = "ROW" -> (IF fetchRow < 0 THEN 1 ELSE fetchRow + 1)
                     [] rc = "DONE" -> -1
                     [] rc = "ERROR" -> -2
                     [] OTHER -> fetchRow
    /\ out' = [op |-> "fetch", err |-> StepOutcome(rc), ref |-> fetchRow, val |-> 0,
               changed |-> FALSE, rc |-> rc, msg |-> <<>>]
    /\ UNCHANGED <<args, bindings, stmtState, tbl>>
    /\ UNCHANGED <<queryVars, rdbVars, ownVars>>

\* Statement::reset on the fetch statement.
FetchReset ==
    /\ Len(tbl) = Len(args)
    /\ fetchRow # 0
    /\ fetchRow' = 0
    /\ out' = [op |-> "fetch_reset", err |-> "ok", ref |-> fetchRow, val |-> 0,
               changed |-> FALSE, rc |-> IF fetchRow = -2 THEN "ERROR" ELSE "OK",
               msg |-> <<>>]
    /\ UNCHANGED <<args, bindings, stmtState, tbl>>
    /\ UNCHANGED <<queryVars, rdbVars, ownVars>>

(***************************************************************************)
(* Statement: column getters, on the fetch statement's current row.        *)
(***************************************************************************)
column_i64(cell) == sqlite3_column_int64(cell)
column_u64(cell) == ToUint64(sqlite3_column_int64(cell))
column_u64_slide(cell) == signed_to_unsigned_int64(sqlite3_column_int64(cell))

Getters == {"column_i64", "column_u64", "column_u64_slide"}

ColumnCall(getter, cell) ==
    CASE getter = "column_i64" -> column_i64(cell)
      [] getter = "column_u64" -> column_u64(cell)
      [] getter = "column_u64_slide" -> column_u64_slide(cell)

Column(getter) ==
    /\ fetchRow >= 1
    /\ out' = [op |-> getter, err |-> "ok", ref |-> fetchRow,
               val |-> ColumnCall(getter, tbl[fetchRow].cell), changed |-> FALSE,
               rc |-> "none", msg |-> <<>>]
    /\ UNCHANGED <<args, bindings, stmtState, tbl, fetchRow>>
    /\ UNCHANGED <<queryVars, rdbVars, ownVars>>

IdleOut == [op |-> "none", err |-> "ok", ref |-> 0, val |-> 0, changed |-> FALSE,
            rc |-> "none", msg |-> <<>>]

BindNext ==
    \/ \E policy \in Policies, index \in Indexes : Bind(policy, index, "foo")
    \/ \E build \in Builds : InsertStep(build, "none")
    \/ InsertReset
    \/ \E build \in Builds : FetchStep(build, "none")
    \/ \E getter \in Getters : Column(getter)

\* Every Statement operation of the model, engine failures included.
StmtNext ==
    \/ \E policy \in Policies, index \in Indexes, name \in Names :
          Bind(policy, index, name)
    \/ \E index \in Indexes, name \in Names : bind_null(index, name)
    \/ \E index \in Indexes, value \in U32, name \in Names :
          BindThrow32(index, value, name)
    \/ \E build \in Builds, fault \in StepFaults : InsertStep(build, fault)
    \/ InsertReset
    \/ clear_bindings
    \/ \E build \in Builds, fault \in StepFaults : FetchStep(build, fault)
    \/ FetchReset
    \/ \E getter \in Getters : Column(getter)

(***************************************************************************)
(* Query: optional values.                                                 *)
(***************************************************************************)
NoValue == [some |-> FALSE, v |-> 0]
Some(v) == [some |-> TRUE, v |-> v]

IdleQOut == [op |-> "none", err |-> "ok", ret |-> "none"]

\* Query::finished() telling by the decoded value instead of the statement
finished_by_value == ~current_.some

\* Query::finished()
finished == ~fetch_stmt_

\* Query::end(), Query::current(), Query::begin(): the iterator's query_
end_ == "null"
current == IF finished THEN end_ ELSE "this"
begin == current

\* Iterator::operator==
IterEq(a, b) == a = b

\* The decoder F of the tests: fetch_value reads column 0 as an integer and
\* returns it as std::uint64_t.
f_(cell) == ToUint64(column_i64(cell))

MaxQueryRows == 3
RowCells == {IntCell(-1), IntCell(INT64_MAX)}
ResultSets == UNION {[1..n -> RowCells] : n \in 0..MaxQueryRows}

\* sqlite3_step on the wrapped select: the next row, DONE after the last, or
\* the failure the engine reports; a failing step leaves the cursor in place.
sqlite3_step_fetch(fault) ==
    IF fault # "none" THEN fault
    ELSE IF cursor < Len(rows) THEN "ROW"
    ELSE "DONE"

\* What a step does to the Query: on Row the decoder runs and its value
\* becomes current_; otherwise the statement is let go.
StepEffectNoDecode(rc) ==
    IF rc = "ROW"
    THEN [current_ |-> current_, fetch_stmt_ |-> TRUE,
          decoded |-> Append(decoded, f_(rows[cursor + 1]))]
    ELSE [current_ |-> current_, fetch_stmt_ |-> FALSE, decoded |-> decoded]
StepEffectKeepStatement(rc) ==
    IF rc = "ROW"
    THEN [current_ |-> Some(f_(rows[cursor + 1])), fetch_stmt_ |-> TRUE,
          decoded |-> Append(decoded, f_(rows[cursor + 1]))]
    ELSE [current_ |-> current_, fetch_stmt_ |-> TRUE, decoded |-> decoded]
StepEffect(rc) ==
    IF rc = "ROW"
    THEN [current_ |-> Some(f_(rows[cursor + 1])), fetch_stmt_ |-> TRUE,
          decoded |-> Append(decoded, f_(rows[cursor + 1]))]
    ELSE [current_ |-> current_, fetch_stmt_ |-> FALSE, decoded |-> decoded]

\* Query::Query(stmt, f): takes the statement and steps it once.  An error of
\* the step leaves the constructor by exception: no Query exists.
Construct(fault) ==
    LET rc == sqlite3_step_fetch(fault)
        e == StepEffect(rc)
    IN
    /\ qstate = "unbuilt"
    /\ IF rc \in {"ROW", "DONE"}
       THEN /\ qstate' = "built"
            /\ current_' = e.current_
            /\ fetch_stmt_' = e.fetch_stmt_
            /\ decoded' = e.decoded
            /\ cursor' = cursor + 1
       ELSE /\ qstate' = "failed"
            /\ UNCHANGED <<current_, fetch_stmt_, decoded, cursor>>
    /\ qout' = [op |-> "Query", err |-> StepOutcome(rc), ret |-> "none"]
    /\ UNCHANGED <<rows, it, yielded, taken, advances>>
    /\ UNCHANGED <<bindVars, rdbVars, ownVars>>

\* it = query.begin()
Begin ==
    /\ qstate = "built"
    /\ it' = begin
    /\ qout' = [op |-> "begin", err |-> "ok", ret |-> begin]
    /\ UNCHANGED <<rows, cursor, qstate, current_, fetch_stmt_, decoded, yielded, taken,
                   advances>>
    /\ UNCHANGED <<bindVars, rdbVars, ownVars>>

\* *query.current(): Iterator::operator* on a position that is not end().
\* The first read of a position is recorded with the row it stands on.
Deref ==
    /\ qstate = "built"
    /\ ~IterEq(current, end_)
    /\ yielded' = IF taken THEN yielded
                  ELSE Append(yielded, [pos |-> cursor, v |-> current_.v])
    /\ taken' = TRUE
    /\ qout' = [op |-> "deref", err |-> "ok", ret |-> "none"]
    /\ UNCHANGED <<rows, cursor, qstate, current_, fetch_stmt_, it, decoded, advances>>
    /\ UNCHANGED <<bindVars, rdbVars, ownVars>>

\* operator++ that catches the error of the step and ends the sequence
AdvanceErrorEnds(fault) ==
    LET rc == sqlite3_step_fetch(fault)
        e == StepEffect(rc)
    IN
    /\ qstate = "built"
    /\ ~IterEq(current, end_)
    /\ current_' = e.current_
    /\ fetch_stmt_' = e.fetch_stmt_
    /\ decoded' = e.decoded
    /\ cursor' = IF rc \in {"ROW", "DONE"} THEN cursor + 1 ELSE cursor
    /\ advances' = IF rc \in {"ROW", "DONE"} THEN advances + 1 ELSE advances
    /\ taken' = IF rc \in {"ROW", "DONE"} THEN FALSE ELSE taken
    /\ qout' = [op |-> "++", err |-> StepOutcome(rc), ret |-> "none"]
    /\ UNCHANGED <<rows, qstate, it, yielded>>
    /\ UNCHANGED <<bindVars, rdbVars, ownVars>>

\* ++query.current(): Iterator::operator++ on a position that is not end().
\* An error of the step leaves by exception before anything is assigned.
Advance(fault) ==
    LET rc == sqlite3_step_fetch(fault)
        e == StepEffect(rc)
    IN
    /\ qstate = "built"
    /\ ~IterEq(current, end_)
    /\ IF rc \in {"ROW", "DONE"}
       THEN /\ current_' = e.current_
            /\ fetch_stmt_' = e.fetch_stmt_
            /\ decoded' = e.decoded
            /\ cursor' = cursor + 1
            /\ advances' = advances + 1
            /\ taken' = FALSE
       ELSE UNCHANGED <<current_, fetch_stmt_, decoded, cursor, advances, taken>>
    /\ qout' = [op |-> "++", err |-> StepOutcome(rc), ret |-> "none"]
    /\ UNCHANGED <<rows, qstate, it, yielded>>
    /\ UNCHANGED <<bindVars, rdbVars, ownVars>>

QueryNext ==
    \/ \E fault \in StepFaults : Construct(fault)
    \/ Begin
    \/ Deref
    \/ \E fault \in StepFaults : Advance(fault)

\* *it on the iterator the caller kept from begin(): Iterator::operator*
\* returns *query_->current_ whatever the state of the Query.  The first
\* read of a position is recorded with the cursor it was read at.
DerefIt ==
    /\ qstate = "built"
    /\ ~IterEq(it, end_)
    /\ current_.some
    /\ yielded' = IF taken THEN yielded
                  ELSE Append(yielded, [pos |-> cursor, v |-> current_.v])
    /\ taken' = TRUE
    /\ qout' = [op |-> "*it", err |-> "ok", ret |-> "none"]
    /\ UNCHANGED <<rows, cursor, qstate, current_, fetch_stmt_, it, decoded, advances>>
    /\ UNCHANGED <<bindVars, rdbVars, ownVars>>

\* The iterator operator++(int) returns after the step: its copy of *this,
\* advanced; the copy's query_ is null once the step did not return Row.
PostIncrementReturn(rc) == IF rc = "ROW" THEN it ELSE end_

\* it++ while the Query holds its statement: operator++(int) const advances
\* a copy of the iterator and returns the copy; `it` itself is not assigned.
PostIncrement(fault) ==
    LET rc == sqlite3_step_fetch(fault)
        e == StepEffect(rc)
    IN
    /\ qstate = "built"
    /\ ~IterEq(it, end_)
    /\ fetch_stmt_
    /\ IF rc \in {"ROW", "DONE"}
       THEN /\ current_' = e.current_
            /\ fetch_stmt_' = e.fetch_stmt_
            /\ decoded' = e.decoded
            /\ cursor' = cursor + 1
            /\ advances' = advances + 1
            /\ taken' = FALSE
            /\ qout' = [op |-> "it++", err |-> StepOutcome(rc),
                        ret |-> PostIncrementReturn(rc)]
       ELSE /\ UNCHANGED <<current_, fetch_stmt_, decoded, cursor, advances, taken>>
            /\ qout' = [op |-> "it++", err |-> StepOutcome(rc), ret |-> "none"]
    /\ UNCHANGED <<rows, qstate, it, yielded>>
    /\ UNCHANGED <<bindVars, rdbVars, ownVars>>

\* What *query_->fetch_stmt_ on an empty optional can lead to: the process
\* dies, or the step runs on a dead statement and the engine answers MISUSE
\* or DONE.
EmptyOptionalOutcomes == {"crash", "MISUSE", "DONE"}

\* it++ after the Query let its statement go: `it` still holds query_, and
\* operator++ dereferences the empty fetch_stmt_.
PostIncrementFinished(outcome) ==
    /\ qstate = "built"
    /\ ~IterEq(it, end_)
    /\ ~fetch_stmt_
    /\ advances <= Len(rows)
    /\ qstate' = IF outcome = "crash" THEN "crashed" ELSE qstate
    /\ advances' = IF outcome = "DONE" THEN advances + 1 ELSE advances
    /\ qout' = [op |-> "it++",
                err |-> IF outcome = "crash" THEN "crash" ELSE StepOutcome(outcome),
                ret |-> IF outcome = "DONE" THEN PostIncrementReturn(outcome) ELSE "none"]
    /\ UNCHANGED <<rows, cursor, current_, fetch_stmt_, it, decoded, yielded, taken>>
    /\ UNCHANGED <<bindVars, rdbVars, ownVars>>

\* The loop  it = begin(); while (it != end()) { use *it; it++; }
LoopNext ==
    \/ \E fault \in StepFaults : Construct(fault)
    \/ Begin
    \/ DerefIt
    \/ \E fault \in StepFaults : PostIncrement(fault)
    \/ \E outcome \in EmptyOptionalOutcomes : PostIncrementFinished(outcome)

(***************************************************************************)
(* The metadata envelope.  A string is a sequence of byte values; 0 is the *)
(* NUL byte, which a std::string can hold anywhere.                        *)
(***************************************************************************)
metadata_version == 1

MaxStrLen == 1
Chars == {0, 65}
Strings == UNION {[1..n -> Chars] : n \in 0..MaxStrLen}

\* MetadataWriter::write
write(type, format_version, tool_name, tool_version, tool_info, generation_date) ==
    [type |-> type, format_version |-> format_version, tool_name |-> tool_name,
     tool_version |-> tool_version, tool_info |-> tool_info,
     generation_date |-> generation_date]

\* An envelope with every field empty; it also stands where none is held.
Blank == write(0, <<>>, <<>>, <<>>, <<>>, 0)

\* The envelopes the callers pass: every value of each field, one field at a
\* time away from the blank envelope.
Metadatas ==
    {write(t, <<>>, <<>>, <<>>, <<>>, 0) : t \in U32}
    \cup {write(0, s, <<>>, <<>>, <<>>, 0) : s \in Strings}
    \cup {write(0, <<>>, s, <<>>, <<>>, 0) : s \in Strings}
    \cup {write(0, <<>>, <<>>, s, <<>>, 0) : s \in Strings}
    \cup {write(0, <<>>, <<>>, <<>>, s, 0) : s \in Strings}
    \cup {write(0, <<>>, <<>>, <<>>, <<>>, d) : d \in U64}

\* "1.0.0-prerelease"
Prerelease == <<49, 46, 48, 46, 48, 45, 112, 114, 101, 114, 101, 108, 101, 97, 115, 101>>

(***************************************************************************)
(* Column getters used by the envelope reader.                             *)
(***************************************************************************)
\* sqlite3_column_int: the low 32 bits of the engine's integer
sqlite3_column_int(cell) == ToInt32(sqlite3_column_int64(cell) % UINT32_MOD)

column_u32(cell) == ToUint32(sqlite3_column_int(cell))

RECURSIVE Decimal(_)
Decimal(n) ==
    IF n < 0 THEN <<45>> \o Decimal(-n)
    ELSE IF n < 10 THEN <<48 + n>>
    ELSE Decimal(n \div 10) \o <<48 + (n % 10)>>

\* sqlite3_column_text: the bytes of a text value, the decimal form of an
\* integer.
sqlite3_column_text(cell) ==
    CASE cell.t = "text" -> cell.s
      [] cell.t = "int" -> Decimal(cell.i)

\* std::string(const char*): the bytes up to the first NUL
RECURSIVE CString(_)
CString(s) ==
    IF s = <<>> \/ Head(s) = 0 THEN <<>>
    ELSE <<Head(s)>> \o CString(Tail(s))

column_text(cell) == CString(sqlite3_column_text(cell))

(***************************************************************************)
(* The database the run follows: a file at one path, or one private        *)
(* in-memory database, which exists only while its connection does.        *)
(***************************************************************************)
NoTable == [present |-> FALSE, versioned |-> FALSE, rows |-> <<>>]
NoConn == [owner |-> "none", ro |-> FALSE]
NoRdb == [some |-> FALSE, md_ |-> Blank, md_version_ |-> 0]
NoWritten == [some |-> FALSE, v |-> Blank]
IdleLast == [op |-> "none", err |-> "ok", had_table |-> FALSE, fault |-> "none"]

\* sqlite3_close on the last connection of the database
Release(st) == IF st.kind = "memory" THEN [st EXCEPT !.exists = FALSE, !.table = NoTable]
               ELSE st
WrittenAfterRelease == IF store.kind = "memory" THEN NoWritten ELSE written

\* Failures the engine can report to an operation, by the call that gets them.
OpenFaults == {"none", "open"}
ReadFaults == {"none", "prepare", "BUSY", "ERROR"}
UpdateFaults == {"none", "prepare", "bind", "BUSY", "ERROR"}
CreateFaults == {"none", "exec", "prepare", "bind", "BUSY", "ERROR"}

\* write_metadata: parameters 2..7 of the insert or update statement
write_metadata(metadata) ==
    <<IntCell(ToInt32(metadata.type)),
      TextCell(metadata.format_version),
      TextCell(metadata.tool_name),
      TextCell(metadata.tool_version),
      TextCell(metadata.tool_info),
      IntCell(ToInt64(metadata.generation_date))>>

\* ResourceDatabase::create_metadata on a connection (ro: opened read-only).
\* The table is created by its own exec; the insert is a second statement.
create_metadata_if_not_exists(table, ro, metadata, fault) ==
    LET created == [present |-> TRUE, versioned |-> TRUE, rows |-> table.rows]
        row == <<IntCell(ToInt32(metadata_version))>> \o write_metadata(metadata)
    IN
    IF ro \/ fault = "exec"
    THEN [table |-> table, err |-> "WriteMetadataError"]
    ELSE IF fault \in {"prepare", "bind"}
    THEN [table |-> created, err |-> "DatabaseError"]
    ELSE IF fault \in {"BUSY", "ERROR"}
    THEN [table |-> created, err |-> StepOutcome(fault)]
    ELSE [table |-> [created EXCEPT !.rows = Append(table.rows, row)], err |-> "ok"]
create_metadata(table, ro, metadata, fault) ==
    LET created == [present |-> TRUE, versioned |-> TRUE, rows |-> <<>>]
        row == <<IntCell(ToInt32(metadata_version))>> \o write_metadata(metadata)
    IN
    IF table.present \/ ro \/ fault = "exec"
    THEN [table |-> table, err |-> "WriteMetadataError"]
    ELSE IF fault \in {"prepare", "bind"}
    THEN [table |-> created, err |-> "DatabaseError"]
    ELSE IF fault \in {"BUSY", "ERROR"}
    THEN [table |-> created, err |-> StepOutcome(fault)]
    ELSE [table |-> [created EXCEPT !.rows = <<row>>], err |-> "ok"]

\* ResourceDatabase::update_metadata: an update without a where clause
update_metadata(table, ro, metadata, fault) ==
    LET row == <<IntCell(ToInt32(metadata_version))>> \o write_metadata(metadata)
    IN
    IF ~table.present \/ ~table.versioned \/ fault \in {"prepare", "bind"}
    THEN [table |-> table, err |-> "DatabaseError"]
    ELSE IF fault \in {"BUSY", "ERROR"}
    THEN [table |-> table, err |-> StepOutcome(fault)]
    ELSE IF ro
    THEN [table |-> table, err |-> "DatabaseError"]
    ELSE [table |-> [table EXCEPT !.rows = [r \in 1..Len(table.rows) |-> row]],
          err |-> "ok"]

\* sqlite3_table_column_metadata(..., "_metadata", "metadata_version", ...)
sqlite3_table_column_metadata(table) == table.present /\ table.versioned

\* The body of read_metadata's try block.
read_metadata_try_first_row(table, fault) ==
    LET thrown(e) == [err |-> e, version |-> 0, metadata |-> Blank]
        row == table.rows[1]
        has_version == sqlite3_table_column_metadata(table)
        c0 == IF has_version THEN 1 ELSE 0
        version == IF has_version THEN column_u32(row[1]) ELSE 0
        c1 == IF version >= 1 THEN c0 + 4 ELSE c0 + 3
        md == write(column_u32(row[c0 + 1]),
                    column_text(row[c0 + 2]),
                    column_text(row[c0 + 3]),
                    IF version >= 1 THEN column_text(row[c0 + 4]) ELSE Prerelease,
                    column_text(row[c1 + 1]),
                    column_u64(row[c1 + 2]))
    IN
    IF ~table.present \/ fault = "prepare" THEN thrown("DatabaseError")
    ELSE IF fault \in {"BUSY", "ERROR"} THEN thrown(StepOutcome(fault))
    ELSE IF table.rows = <<>> THEN thrown("ReadMetadataError")
    ELSE IF has_version /\ version > metadata_version THEN thrown("ReadMetadataError")
    ELSE [err |-> "ok", version |-> version, metadata |-> md]
read_metadata_try(table, fault) ==
    LET thrown(e) == [err |-> e, version |-> 0, metadata |-> Blank]
        row == table.rows[1]
        has_version == sqlite3_table_column_metadata(table)
        c0 == IF has_version THEN 1 ELSE 0
        version == IF has_version THEN column_u32(row[1]) ELSE 0
        c1 == IF version >= 1 THEN c0 + 4 ELSE c0 + 3
        md == write(column_u32(row[c0 + 1]),
                    column_text(row[c0 + 2]),
                    column_text(row[c0 + 3]),
                    IF version >= 1 THEN column_text(row[c0 + 4]) ELSE Prerelease,
                    column_text(row[c1 + 1]),
                    column_u64(row[c1 + 2]))
    IN
    IF ~table.present \/ fault = "prepare" THEN thrown("DatabaseError")
    ELSE IF fault \in {"BUSY", "ERROR"} THEN thrown(StepOutcome(fault))
    ELSE IF table.rows = <<>> THEN thrown("ReadMetadataError")
    ELSE IF has_version /\ version > metadata_version THEN thrown("ReadMetadataError")
    ELSE IF Len(table.rows) > 1 THEN thrown("ReadMetadataError")
    ELSE [err |-> "ok", version |-> version, metadata |-> md]

\* ResourceDatabase::read_metadata: any DatabaseError of the try block leaves
\* as ReadMetadataError.
read_metadata_busy_escapes(table, fault) ==
    LET r == read_metadata_try(table, fault) IN
    IF r.err = "DatabaseError" THEN [r EXCEPT !.err = "ReadMetadataError"] ELSE r
read_metadata_uncaught(table, fault) == read_metadata_try(table, fault)
read_metadata(table, fault) ==
    LET r == read_metadata_try(table, fault) IN
    IF r.err \in {"DatabaseError", "DatabaseBusy"}
    THEN [r EXCEPT !.err = "ReadMetadataError"]
    ELSE r

(***************************************************************************)
(* Operations.  A factory that throws destroys its local ResourceDatabase, *)
(* which closes the connection it was given or had opened.                 *)
(***************************************************************************)
\* Database::Database(filename, mode) reporting DatabaseNotFound for a
\* missing file only, and a plain DatabaseError for any other open failure
DbOpenNotFoundOnlyIfMissing(mode, fault) ==
    LET ok == fault # "open" /\ (mode = "Create" \/ store.exists) IN
    /\ store.kind = "file"
    /\ conn.owner = "none"
    /\ conn' = IF ok THEN [owner |-> "db", ro |-> (mode = "ReadOnly")] ELSE NoConn
    /\ store' = IF ok THEN [store EXCEPT !.exists = TRUE] ELSE store
    /\ last' = [op |-> "Database",
                err |-> IF ok THEN "ok"
                        ELSE IF store.exists THEN "DatabaseError"
                        ELSE "DatabaseNotFound",
                had_table |-> store.table.present,
                fault |-> fault]
    /\ UNCHANGED <<rdb, written>>
    /\ UNCHANGED <<bindVars, queryVars, ownVars>>

\* Database::Database(filename, mode)
DbOpen(mode, fault) ==
    LET ok == fault # "open" /\ (mode = "Create" \/ store.exists) IN
    /\ store.kind = "file"
    /\ conn.owner = "none"
    /\ conn' = IF ok THEN [owner |-> "db", ro |-> (mode = "ReadOnly")] ELSE NoConn
    /\ store' = IF ok THEN [store EXCEPT !.exists = TRUE] ELSE store
    /\ last' = [op |-> "Database", err |-> IF ok THEN "ok" ELSE "DatabaseNotFound",
                had_table |-> store.table.present,
                fault |-> fault]
    /\ UNCHANGED <<rdb, written>>
    /\ UNCHANGED <<bindVars, queryVars, ownVars>>

\* Database::from_memory()
DbFromMemory(fault) ==
    LET ok == fault # "open" IN
    /\ store.kind = "memory"
    /\ conn.owner = "none"
    /\ conn' = IF ok THEN [owner |-> "db", ro |-> FALSE] ELSE NoConn
    /\ store' = IF ok THEN [store EXCEPT !.exists = TRUE] ELSE store
    /\ last' = [op |-> "Database::from_memory",
                err |-> IF ok THEN "ok" ELSE "DatabaseNotFound", had_table |-> FALSE,
                fault |-> fault]
    /\ UNCHANGED <<rdb, written>>
    /\ UNCHANGED <<bindVars, queryVars, ownVars>>

\* ResourceDatabase::open(filename, read_only)
RdbOpen(read_only, fault) ==
    LET opened == fault # "open" /\ store.exists
        r == read_metadata(store.table, fault)
        ok == opened /\ r.err = "ok"
    IN
    /\ store.kind = "file"
    /\ conn.owner = "none"
    /\ conn' = IF ok THEN [owner |-> "rdb", ro |-> read_only] ELSE NoConn
    /\ rdb' = IF ok THEN [some |-> TRUE, md_ |-> r.metadata, md_version_ |-> r.version]
              ELSE NoRdb
    /\ last' = [op |-> "open", err |-> IF opened THEN r.err ELSE "DatabaseNotFound",
                had_table |-> store.table.present,
                fault |-> fault]
    /\ UNCHANGED <<store, written>>
    /\ UNCHANGED <<bindVars, queryVars, ownVars>>

\* ResourceDatabase::create(filename, metadata)
RdbCreate(metadata, fault) ==
    LET opened == fault # "open"
        w == create_metadata(store.table, FALSE, metadata, fault)
        ok == opened /\ w.err = "ok"
    IN
    /\ store.kind = "file"
    /\ conn.owner = "none"
    /\ store' = IF opened THEN [store EXCEPT !.exists = TRUE, !.table = w.table]
                ELSE store
    /\ conn' = IF ok THEN [owner |-> "rdb", ro |-> FALSE] ELSE NoConn
    /\ rdb' = IF ok
              THEN [some |-> TRUE, md_ |-> metadata, md_version_ |-> metadata_version]
              ELSE NoRdb
    /\ written' = IF ok THEN [some |-> TRUE, v |-> metadata] ELSE written
    /\ last' = [op |-> "create", err |-> IF opened THEN w.err ELSE "DatabaseNotFound",
                had_table |-> store.table.present,
                fault |-> fault]
    /\ UNCHANGED <<bindVars, queryVars, ownVars>>

\* ResourceDatabase::from_memory(metadata)
RdbFromMemory(metadata, fault) ==
    LET opened == fault # "open"
        w == create_metadata(NoTable, FALSE, metadata, fault)
        ok == opened /\ w.err = "ok"
    IN
    /\ store.kind = "memory"
    /\ conn.owner = "none"
    /\ store' = IF ok THEN [store EXCEPT !.exists = TRUE, !.table = w.table]
                ELSE store
    /\ conn' = IF ok THEN [owner |-> "rdb", ro |-> FALSE] ELSE NoConn
    /\ rdb' = IF ok
              THEN [some |-> TRUE, md_ |-> metadata, md_version_ |-> metadata_version]
              ELSE NoRdb
    /\ written' = IF ok THEN [some |-> TRUE, v |-> metadata] ELSE NoWritten
    /\ last' = [op |-> "from_memory",
                err |-> IF opened THEN w.err ELSE "DatabaseNotFound",
                had_table |-> FALSE,
                fault |-> fault]
    /\ UNCHANGED <<bindVars, queryVars, ownVars>>

\* ResourceDatabase::from_db(std::move(db)), db a Database or a
\* ResourceDatabase
RdbFromDb(fault) ==
    LET r == read_metadata(store.table, fault)
        ok == r.err = "ok"
    IN
    /\ conn.owner # "none"
    /\ conn' = IF ok THEN [conn EXCEPT !.owner = "rdb"] ELSE NoConn
    /\ rdb' = IF ok THEN [some |-> TRUE, md_ |-> r.metadata, md_version_ |-> r.version]
              ELSE NoRdb
    /\ store' = IF ok THEN store ELSE Release(store)
    /\ written' = IF ok THEN written ELSE WrittenAfterRelease
    /\ last' = [op |-> "from_db", err |-> r.err, had_table |-> store.table.present,
                fault |-> fault]
    /\ UNCHANGED <<bindVars, queryVars, ownVars>>

\* ResourceDatabase::convert_db(std::move(db), metadata)
RdbConvertDb(metadata, fault) ==
    LET w == create_metadata(store.table, conn.ro, metadata, fault)
        ok == w.err = "ok"
    IN
    /\ conn.owner # "none"
    /\ conn' = IF ok THEN [conn EXCEPT !.owner = "rdb"] ELSE NoConn
    /\ rdb' = IF ok
              THEN [some |-> TRUE, md_ |-> metadata, md_version_ |-> metadata_version]
              ELSE NoRdb
    /\ store' = IF ok THEN [store EXCEPT !.table = w.table]
                ELSE Release([store EXCEPT !.table = w.table])
    /\ written' = IF ok THEN [some |-> TRUE, v |-> metadata] ELSE WrittenAfterRelease
    /\ last' = [op |-> "convert_db", err |-> w.err, had_table |-> store.table.present,
                fault |-> fault]
    /\ UNCHANGED <<bindVars, queryVars, ownVars>>

\* ResourceDatabase::set_metadata(metadata)
set_metadata_unchecked(metadata, fault) ==
    LET w == update_metadata(store.table, conn.ro, metadata, fault)
        ok == w.err = "ok"
    IN
    /\ conn.owner = "rdb"
    /\ store' = [store EXCEPT !.table = w.table]
    /\ rdb' = IF ok THEN [rdb EXCEPT !.md_ = metadata] ELSE rdb
    /\ written' = IF ok THEN [some |-> TRUE, v |-> metadata] ELSE written
    /\ last' = [op |-> "set_metadata", err |-> w.err, had_table |-> store.table.present,
                fault |-> fault]
    /\ UNCHANGED conn
    /\ UNCHANGED <<bindVars, queryVars, ownVars>>
\* ResourceDatabase::set_metadata(metadata) that brings a table of another
\* version to the current schema before it writes
set_metadata_upgrading(metadata, fault) ==
    LET upgraded == [store.table EXCEPT !.versioned = TRUE]
        w == update_metadata(IF rdb.md_version_ # metadata_version
                             THEN upgraded ELSE store.table,
                             conn.ro, metadata, fault)
        ok == w.err = "ok"
    IN
    /\ conn.owner = "rdb"
    /\ store' = [store EXCEPT !.table = IF ok THEN w.table ELSE store.table]
    /\ rdb' = IF ok THEN [rdb EXCEPT !.md_ = metadata, !.md_version_ = metadata_version]
              ELSE rdb
    /\ written' = IF ok THEN [some |-> TRUE, v |-> metadata] ELSE written
    /\ last' = [op |-> "set_metadata", err |-> w.err, had_table |-> store.table.present,
                fault |-> fault]
    /\ UNCHANGED conn
    /\ UNCHANGED <<bindVars, queryVars, ownVars>>
set_metadata(metadata, fault) ==
    LET w == IF rdb.md_version_ # metadata_version
             THEN [table |-> store.table, err |-> "WriteMetadataError"]
             ELSE update_metadata(store.table, conn.ro, metadata, fault)
        ok == w.err = "ok"
    IN
    /\ conn.owner = "rdb"
    /\ store' = [store EXCEPT !.table = w.table]
    /\ rdb' = IF ok THEN [rdb EXCEPT !.md_ = metadata] ELSE rdb
    /\ written' = IF ok THEN [some |-> TRUE, v |-> metadata] ELSE written
    /\ last' = [op |-> "set_metadata", err |-> w.err, had_table |-> store.table.present,
                fault |-> fault]
    /\ UNCHANGED conn
    /\ UNCHANGED <<bindVars, queryVars, ownVars>>

\* ~Database: the owner goes out of scope and the connection is closed
Close ==
    /\ conn.owner # "none"
    /\ conn' = NoConn
    /\ rdb' = NoRdb
    /\ store' = Release(store)
    /\ written' = WrittenAfterRelease
    /\ last' = [op |-> "close", err |-> "ok", had_table |-> store.table.present,
                fault |-> "none"]
    /\ UNCHANGED <<bindVars, queryVars, ownVars>>

OpenModes == {"Create", "ReadOnly", "ReadWrite"}

Next ==
    \/ \E mode \in OpenModes, fault \in OpenFaults : DbOpen(mode, fault)
    \/ \E fault \in OpenFaults : DbFromMemory(fault)
    \/ \E read_only \in BOOLEAN, fault \in OpenFaults \cup ReadFaults :
          RdbOpen(read_only, fault)
    \/ \E metadata \in Metadatas, fault \in OpenFaults \cup CreateFaults :
          RdbCreate(metadata, fault)
    \/ \E metadata \in Metadatas, fault \in OpenFaults \cup CreateFaults :
          RdbFromMemory(metadata, fault)
    \/ \E fault \in ReadFaults : RdbFromDb(fault)
    \/ \E metadata \in Metadatas, fault \in CreateFaults : RdbConvertDb(metadata, fault)
    \/ \E metadata \in Metadatas, fault \in UpdateFaults : set_metadata(metadata, fault)
    \/ Close

IdleStore == [kind |-> "file", exists |-> FALSE, table |-> NoTable]

(***************************************************************************)
(* SpecOwn: Database objects and the engine handles behind them.  db_ is   *)
(* a unique_ptr whose deleter is sqlite3_close: destroying an object that  *)
(* holds a handle closes it, moving an object empties its source, and      *)
(* release() hands the raw pointer to the caller.  sqlite3_open_v2         *)
(* allocates a handle even when it reports a failure.                      *)
(***************************************************************************)
MaxHandles == 2
Handles == 1..MaxHandles
Objects == {"a", "b", "c"}

IdleDb == [o \in Objects |-> 0]
IdleClosed == [h \in Handles |-> 0]

\* the Database objects that own handle h
Owners(h) == {o \in alive : db_[o] = h}

\* Database::Database(const char* filename, OpenMode mode)
DatabaseOpen(o, fault) ==
    /\ o \notin alive
    /\ nhandles < MaxHandles
    /\ nhandles' = nhandles + 1
    /\ IF fault = "open"
       THEN UNCHANGED <<alive, db_>>
       ELSE /\ alive' = alive \cup {o}
            /\ db_' = [db_ EXCEPT ![o] = nhandles + 1]
    /\ UNCHANGED <<closed, raw>>
    /\ UNCHANGED <<bindVars, queryVars, rdbVars>>

\* Database::Database(sqlite3* raw_db), on a raw pointer the caller holds
DatabaseAdopt(o, raw_db) ==
    /\ o \notin alive
    /\ raw_db \in raw
    /\ alive' = alive \cup {o}
    /\ db_' = [db_ EXCEPT ![o] = raw_db]
    /\ UNCHANGED <<nhandles, closed, raw>>
    /\ UNCHANGED <<bindVars, queryVars, rdbVars>>

\* Database(Database&&), and with it ResourceDatabase(Database db)
DatabaseMove(db, o) ==
    /\ db \in alive
    /\ o \notin alive
    /\ alive' = alive \cup {o}
    /\ db_' = [db_ EXCEPT ![o] = db_[db], ![db] = 0]
    /\ UNCHANGED <<nhandles, closed, raw>>
    /\ UNCHANGED <<bindVars, queryVars, rdbVars>>

\* Database::release() &&
DatabaseRelease(o) ==
    /\ o \in alive
    /\ db_[o] # 0
    /\ raw' = raw \cup {db_[o]}
    /\ db_' = [db_ EXCEPT ![o] = 0]
    /\ UNCHANGED <<alive, nhandles, closed>>
    /\ UNCHANGED <<bindVars, queryVars, rdbVars>>

\* ~Database(): the deleter of db_ runs sqlite3_close on a non-null pointer
DatabaseDestroy(o) ==
    /\ o \in alive
    /\ db_[o] # 0 => closed[db_[o]] <= 1
    /\ alive' = alive \ {o}
    /\ db_' = [db_ EXCEPT ![o] = 0]
    /\ closed' = IF db_[o] = 0 THEN closed
                 ELSE [closed EXCEPT ![db_[o]] = @ + 1]
    /\ UNCHANGED <<nhandles, raw>>
    /\ UNCHANGED <<bindVars, queryVars, rdbVars>>

\* What from_db and convert_db can end in.
DowncastResults ==
    {<<"from_db", "ok">>, <<"from_db", "ReadMetadataError">>,
     <<"convert_db", "ok">>, <<"convert_db", "WriteMetadataError">>,
     <<"convert_db", "DatabaseError">>, <<"convert_db", "DatabaseBusy">>}

\* from_db / convert_db taking the caller's Database by reference and
\* wrapping its raw pointer
DatabaseDowncastByReference(db, o, result) ==
    LET h == db_[db]
        ok == result[2] = "ok"
    IN
    /\ db \in alive
    /\ o \notin alive
    /\ ok => h # 0
    /\ h # 0 => closed[h] <= 1
    /\ alive' = IF ok THEN alive \cup {o} ELSE alive
    /\ db_' = IF ok THEN [db_ EXCEPT ![o] = h] ELSE db_
    /\ closed' = IF ok \/ h = 0 THEN closed ELSE [closed EXCEPT ![h] = @ + 1]
    /\ last' = [op |-> result[1], err |-> result[2], had_table |-> FALSE,
                fault |-> "none"]
    /\ UNCHANGED <<nhandles, raw>>
    /\ UNCHANGED <<store, conn, rdb, written>>
    /\ UNCHANGED <<bindVars, queryVars>>

\* ResourceDatabase::from_db(std::move(db)) / convert_db(std::move(db), md):
\* the parameter is move-constructed from the caller's object, the local
\* rdb from the parameter; rdb is returned into o, or destroyed when
\* read_metadata / create_metadata throws.
DatabaseDowncast(db, o, result) ==
    LET h == db_[db]
        ok == result[2] = "ok"
    IN
    /\ db \in alive
    /\ o \notin alive
    /\ ok => h # 0
    /\ h # 0 => closed[h] <= 1
    /\ alive' = IF ok THEN alive \cup {o} ELSE alive
    /\ db_' = IF ok THEN [db_ EXCEPT ![o] = h, ![db] = 0] ELSE [db_ EXCEPT ![db] = 0]
    /\ closed' = IF ok \/ h = 0 THEN closed ELSE [closed EXCEPT ![h] = @ + 1]
    /\ last' = [op |-> result[1], err |-> result[2], had_table |-> FALSE,
                fault |-> "none"]
    /\ UNCHANGED <<nhandles, raw>>
    /\ UNCHANGED <<store, conn, rdb, written>>
    /\ UNCHANGED <<bindVars, queryVars>>

OwnNext ==
    \/ \E o \in Objects, fault \in OpenFaults : DatabaseOpen(o, fault)
    \/ \E o \in Objects, raw_db \in Handles : DatabaseAdopt(o, raw_db)
    \/ \E db \in Objects, o \in Objects : DatabaseMove(db, o)
    \/ \E o \in Objects : DatabaseRelease(o)
    \/ \E o \in Objects : DatabaseDestroy(o)
    \/ \E db \in Objects, o \in Objects, result \in DowncastResults :
          DatabaseDowncast(db, o, result)

(***************************************************************************)
(* SpecQuery: a Query is built over a statement with a chosen result set.  *)
(***************************************************************************)
QueryInit ==
    /\ args = <<0, 0>>
    /\ bindings = [i \in 1..NParams |-> Unbound]
    /\ stmtState = "unstepped"
    /\ tbl = <<>>
    /\ fetchRow = 0
    /\ out = IdleOut
    /\ rows \in ResultSets
    /\ cursor = 0
    /\ qstate = "unbuilt"
    /\ current_ = NoValue
    /\ fetch_stmt_ = FALSE
    /\ it = "null"
    /\ decoded = <<>>
    /\ yielded = <<>>
    /\ taken = FALSE
    /\ advances = 0
    /\ qout = IdleQOut
    /\ store = IdleStore
    /\ conn = NoConn
    /\ rdb = NoRdb
    /\ written = NoWritten
    /\ last = IdleLast
    /\ alive = {}
    /\ db_ = IdleDb
    /\ nhandles = 0
    /\ closed = IdleClosed
    /\ raw = {}

SpecQuery == QueryInit /\ [][QueryNext]_vars

\* The same Query, driven by the post-increment loop.
SpecLoop == QueryInit /\ [][LoopNext]_vars

(***************************************************************************)
(* SpecBind: two inputs are bound and inserted in turn, then fetched.      *)
(***************************************************************************)
BindInit ==
    /\ args \in U64 \X U64
    /\ bindings = [i \in 1..NParams |-> Unbound]
    /\ stmtState = "unstepped"
    /\ tbl = <<>>
    /\ fetchRow = 0
    /\ out = IdleOut
    /\ rows = <<>>
    /\ cursor = 0
    /\ qstate = "unbuilt"
    /\ current_ = NoValue
    /\ fetch_stmt_ = FALSE
    /\ it = "null"
    /\ decoded = <<>>
    /\ yielded = <<>>
    /\ taken = FALSE
    /\ advances = 0
    /\ qout = IdleQOut
    /\ store = IdleStore
    /\ conn = NoConn
    /\ rdb = NoRdb
    /\ written = NoWritten
    /\ last = IdleLast
    /\ alive = {}
    /\ db_ = IdleDb
    /\ nhandles = 0
    /\ closed = IdleClosed
    /\ raw = {}

SpecBind == BindInit /\ [][BindNext]_vars

(***************************************************************************)
(* SpecStmt: the life of the two statements, with every engine outcome of  *)
(* a step, over two pairs of inputs.                                       *)
(***************************************************************************)
StmtInit ==
    /\ args \in {<<0, UINT64_MAX>>, <<INT64_MAX, 0>>}
    /\ bindings = [i \in 1..NParams |-> Unbound]
    /\ stmtState = "unstepped"
    /\ tbl = <<>>
    /\ fetchRow = 0
    /\ out = IdleOut
    /\ rows = <<>>
    /\ cursor = 0
    /\ qstate = "unbuilt"
    /\ current_ = NoValue
    /\ fetch_stmt_ = FALSE
    /\ it = "null"
    /\ decoded = <<>>
    /\ yielded = <<>>
    /\ taken = FALSE
    /\ advances = 0
    /\ qout = IdleQOut
    /\ store = IdleStore
    /\ conn = NoConn
    /\ rdb = NoRdb
    /\ written = NoWritten
    /\ last = IdleLast
    /\ alive = {}
    /\ db_ = IdleDb
    /\ nhandles = 0
    /\ closed = IdleClosed
    /\ raw = {}

SpecStmt == StmtInit /\ [][StmtNext]_vars

(***************************************************************************)
(* Spec: the envelope lifecycle.  The run starts on a path with no file,   *)
(* on a database file without envelope, or on no in-memory database yet.   *)
(***************************************************************************)
Init ==
    /\ args = <<0, 0>>
    /\ bindings = [i \in 1..NParams |-> Unbound]
    /\ stmtState = "unstepped"
    /\ tbl = <<>>
    /\ fetchRow = 0
    /\ out = IdleOut
    /\ rows = <<>>
    /\ cursor = 0
    /\ qstate = "unbuilt"
    /\ current_ = NoValue
    /\ fetch_stmt_ = FALSE
    /\ it = "null"
    /\ decoded = <<>>
    /\ yielded = <<>>
    /\ taken = FALSE
    /\ advances = 0
    /\ qout = IdleQOut
    /\ store \in {[kind |-> k, exists |-> e, table |-> NoTable] :
                     k \in {"file", "memory"}, e \in BOOLEAN} \
                 {[kind |-> "memory", exists |-> TRUE, table |-> NoTable]}
    /\ conn = NoConn
    /\ rdb = NoRdb
    /\ written = NoWritten
    /\ last = IdleLast
    /\ alive = {}
    /\ db_ = IdleDb
    /\ nhandles = 0
    /\ closed = IdleClosed
    /\ raw = {}

Spec == Init /\ [][Next]_vars

(***************************************************************************)
(* SpecStored: the same operations on a file that already holds a          *)
(* _metadata table written by another program or an older release: with or *)
(* without the metadata_version column, with any number of rows.           *)
(***************************************************************************)
MaxStoredRows == 2

\* Version numbers found in the metadata_version column: the two known
\* ones, the next one, and one that does not fit 32 bits.
StoredVersions == {0, metadata_version, metadata_version + 1, UINT32_MOD + 1}

\* Envelopes found in such a file.
StoredMetadatas ==
    {write(UINT32_MAX, <<>>, <<>>, <<>>, <<>>, 0),
     write(0, <<65>>, <<>>, <<>>, <<>>, 0),
     write(0, <<>>, <<65>>, <<>>, <<>>, 0),
     write(0, <<>>, <<>>, <<65>>, <<>>, 0),
     write(0, <<>>, <<>>, <<>>, <<65>>, 0),
     write(0, <<>>, <<>>, <<>>, <<0>>, 0),
     write(0, <<>>, <<>>, <<>>, <<>>, UINT64_MAX)}

\* A row of the version-0 table: type, format_version, tool_name, tool_info,
\* generation_date.
LegacyRow(metadata) ==
    LET w == write_metadata(metadata) IN <<w[1], w[2], w[3], w[5], w[6]>>

\* A row of the table that has the metadata_version column.
VersionedRow(version, metadata) == <<IntCell(version)>> \o write_metadata(metadata)

StoredTables ==
    {[present |-> TRUE, versioned |-> FALSE, rows |-> [i \in 1..n |-> LegacyRow(m)]] :
        n \in 0..MaxStoredRows, m \in StoredMetadatas}
    \cup
    {[present |-> TRUE, versioned |-> TRUE, rows |-> [i \in 1..n |-> VersionedRow(v, m)]] :
        n \in 0..MaxStoredRows, v \in StoredVersions, m \in StoredMetadatas}

InitStored ==
    /\ args = <<0, 0>>
    /\ bindings = [i \in 1..NParams |-> Unbound]
    /\ stmtState = "unstepped"
    /\ tbl = <<>>
    /\ fetchRow = 0
    /\ out = IdleOut
    /\ rows = <<>>
    /\ cursor = 0
    /\ qstate = "unbuilt"
    /\ current_ = NoValue
    /\ fetch_stmt_ = FALSE
    /\ it = "null"
    /\ decoded = <<>>
    /\ yielded = <<>>
    /\ taken = FALSE
    /\ advances = 0
    /\ qout = IdleQOut
    /\ store \in {[kind |-> "file", exists |-> TRUE, table |-> t] : t \in StoredTables}
                 \cup {[kind |-> "memory", exists |-> FALSE, table |-> NoTable]}
    /\ conn = NoConn
    /\ rdb = NoRdb
    /\ written = NoWritten
    /\ last = IdleLast
    /\ alive = {}
    /\ db_ = IdleDb
    /\ nhandles = 0
    /\ closed = IdleClosed
    /\ raw = {}

SpecStored == InitStored /\ [][Next]_vars

(***************************************************************************)
(* SpecOwn: no Database object exists and no handle is allocated yet.      *)
(***************************************************************************)
OwnInit ==
    /\ args = <<0, 0>>
    /\ bindings = [i \in 1..NParams |-> Unbound]
    /\ stmtState = "unstepped"
    /\ tbl = <<>>
    /\ fetchRow = 0
    /\ out = IdleOut
    /\ rows = <<>>
    /\ cursor = 0
    /\ qstate = "unbuilt"
    /\ current_ = NoValue
    /\ fetch_stmt_ = FALSE
    /\ it = "null"
    /\ decoded = <<>>
    /\ yielded = <<>>
    /\ taken = FALSE
    /\ advances = 0
    /\ qout = IdleQOut
    /\ store = IdleStore
    /\ conn = NoConn
    /\ rdb = NoRdb
    /\ written = NoWritten
    /\ last = IdleLast
    /\ alive = {}
    /\ db_ = IdleDb
    /\ nhandles = 0
    /\ closed = IdleClosed
    /\ raw = {}

SpecOwn == OwnInit /\ [][OwnNext]_vars

(***************************************************************************)
(* Properties of the binding policies (SpecBind).                          *)
(***************************************************************************)
\* The input a table row was bound from.
RowInput(r) == args[tbl[r].k]

\* C4: a value bound with bind_arg_slide and read back with column_u64_slide
\* is the value that was bound, over the whole unsigned range.
C4_SlideRoundTrip ==
    (out.op = "column_u64_slide" /\ tbl[out.ref].policy = "slide")
        => out.val = RowInput(out.ref)

\* C4 witness: the largest unsigned value came back through the slide pair.
C4_Witness ==
    /\ out.op = "column_u64_slide"
    /\ tbl[out.ref].policy = "slide"
    /\ RowInput(out.ref) = UINT64_MAX
    /\ out.val = UINT64_MAX

\* C5: of two values stored by bind_arg_slide, the smaller unsigned input has
\* the smaller stored signed value.
C5_SlideOrder ==
    \A i, j \in 1..Len(tbl) :
        (tbl[i].policy = "slide" /\ tbl[j].policy = "slide" /\ RowInput(i) < RowInput(j))
            => tbl[i].cell.i < tbl[j].cell.i

\* C5 witness: two slide rows on either side of the signed boundary.
C5_Witness ==
    \E i, j \in 1..Len(tbl) :
        /\ tbl[i].policy = "slide" /\ tbl[j].policy = "slide"
        /\ RowInput(i) <= INT64_MAX /\ RowInput(j) > INT64_MAX
        /\ tbl[i].cell.i < tbl[j].cell.i

\* C6: bind_arg_throw refuses every value above INT64_MAX with
\* OutOfBoundsError and binds nothing; a value up to INT64_MAX is bound (given
\* a parameter the engine accepts) and reads back unchanged.
C6_ThrowPolicy ==
    /\ out.op = "throw" =>
          /\ NextArg > INT64_MAX => (out.err = "OutOfBoundsError" /\ ~out.changed)
          /\ (NextArg <= INT64_MAX /\ out.ref \in 1..NParams /\ stmtState = "unstepped")
                => /\ out.err = "ok"
                   /\ bindings[out.ref].policy = "throw"
                   /\ column_u64(bindings[out.ref].cell) = NextArg
    /\ \A r \in 1..Len(tbl) :
          tbl[r].policy = "throw"
              => (RowInput(r) <= INT64_MAX /\ column_u64(tbl[r].cell) = RowInput(r))
    /\ (out.op \in {"column_u64", "column_i64"} /\ tbl[out.ref].policy = "throw")
          => out.val = RowInput(out.ref)

\* C6 witness: a refused bind of a value above INT64_MAX, after INT64_MAX
\* itself was bound with the throw policy and inserted.
C6_Witness ==
    /\ out.op = "throw" /\ out.err = "OutOfBoundsError"
    /\ NextArg > INT64_MAX
    /\ Len(tbl) = 1 /\ tbl[1].policy = "throw" /\ RowInput(1) = INT64_MAX

\* C31: bind_arg_cast stores v itself when v <= INT64_MAX and v - 2^64 when
\* v > INT64_MAX; column_u64 returns v for every v; and of two values on
\* either side of INT64_MAX the larger one is stored as the smaller number.
C31_CastPolicy ==
    /\ \A r \in 1..Len(tbl) :
          tbl[r].policy = "cast" =>
              tbl[r].cell.i = IF RowInput(r) <= INT64_MAX THEN RowInput(r)
                              ELSE RowInput(r) - UINT64_MOD
    /\ (out.op = "column_u64" /\ tbl[out.ref].policy = "cast")
          => out.val = RowInput(out.ref)
    /\ \A i, j \in 1..Len(tbl) :
          (/\ tbl[i].policy = "cast" /\ tbl[j].policy = "cast"
           /\ RowInput(i) <= INT64_MAX /\ RowInput(j) > INT64_MAX)
              => tbl[j].cell.i < tbl[i].cell.i

\* C31 witness: a < b were stored by bind_arg_cast, b is stored below a, and
\* column_u64 gave b back.
C31_Witness ==
    /\ Len(tbl) = 2
    /\ tbl[1].policy = "cast" /\ tbl[2].policy = "cast"
    /\ RowInput(1) < RowInput(2)
    /\ tbl[2].cell.i < tbl[1].cell.i
    /\ out.op = "column_u64" /\ out.ref = 2
    /\ out.val = RowInput(2)
    /\ out.val > INT64_MAX

C19_StepAfterDoneIsMisuse ==
    [][/\ (out'.op = "fetch" /\ fetchRow = -1) =>
            (out'.err = "logic_error" /\ fetchRow' = -1)
       /\ (out'.op = "step" /\ stmtState = "done") =>
            (out'.err = "logic_error" /\ tbl' = tbl)]_vars

\* C20: reset leaves the bindings as they are, and the next step inserts the
\* values still bound; clear_bindings sets every parameter to NULL and moves
\* no cursor; the bindings change only by clear_bindings or by a bind, and a
\* bind changes the parameter it names only.
C20_BindingsPersist ==
    [][/\ out'.op \in {"reset", "fetch_reset"} => bindings' = bindings
       /\ out'.op = "clear_bindings" =>
            /\ \A i \in 1..NParams : bindings'[i].cell = NullCell
            /\ UNCHANGED <<stmtState, fetchRow, tbl>>
       /\ bindings' # bindings =>
            /\ out'.op \in Policies \cup {"throw_u32", "bind_null", "clear_bindings"}
            /\ out'.op \in Policies \cup {"throw_u32", "bind_null"} =>
                  \A i \in 1..NParams : i # out'.ref => bindings'[i] = bindings[i]
       /\ (out'.op = "step" /\ out'.err = "Done") =>
            tbl' = Append(tbl, bindings[1])]_vars

\* C20 witness: a value was bound and inserted, the statement was reset, and
\* the parameter still holds the value the first row was made of.
C20_Witness ==
    /\ out.op = "reset"
    /\ stmtState = "unstepped"
    /\ Len(tbl) = 1
    /\ tbl[1].policy # "none"
    /\ bindings[1] = tbl[1]

(***************************************************************************)
(* Properties of Query (SpecQuery).                                        *)
(***************************************************************************)
\* The decoder's values for the first n rows, in row order.
DecodedRows(n) == [i \in 1..n |-> f_(rows[i])]

\* C7: over N rows the decoder runs once per row, in row order, and never on
\* Done; a dereference returns the decoded value of the row the statement
\* stands on; the Query is finished exactly when N advances have completed.
C7_QueryYieldsRows ==
    qstate = "built" =>
        /\ decoded = DecodedRows(IF finished THEN Len(rows) ELSE cursor)
        /\ ~finished => (cursor \in 1..Len(rows) /\ current_ = Some(f_(rows[cursor])))
        /\ \A n \in 1..Len(yielded) :
              /\ yielded[n].v = f_(rows[yielded[n].pos])
              /\ n > 1 => yielded[n - 1].pos < yielded[n].pos
        /\ finished <=> advances = Len(rows)

\* C7 witness: a Query over the largest result set, every position read once,
\* finished after as many advances as there are rows.
C7_Witness ==
    /\ qstate = "built" /\ finished
    /\ Len(rows) = MaxQueryRows /\ rows[1] # rows[2]
    /\ advances = Len(rows)
    /\ [n \in 1..Len(yielded) |-> yielded[n].v] = DecodedRows(Len(rows))

\* C8: a Query over zero rows is finished once constructed, holds no
\* statement, and its begin(), current() and end() compare equal.
C8_EmptyQueryFinished ==
    (qstate = "built" /\ Len(rows) = 0) =>
        /\ finished
        /\ ~fetch_stmt_
        /\ IterEq(begin, current)
        /\ IterEq(current, end_)
        /\ IterEq(begin, end_)

\* C8 witness: a Query was constructed over an empty result set.
C8_Witness ==
    /\ qstate = "built" /\ Len(rows) = 0
    /\ qout.op = "Query" /\ qout.err = "Done"
    /\ finished

\* C9 as claimed: current_ holds a value exactly while the Query holds its
\* statement, so the advance that gets Done empties current_.
C9_CurrentIffNotDone ==
    qstate = "built" => (current_.some <=> fetch_stmt_)

\* C35: an advance whose step throws DatabaseBusy or DatabaseError leaves
\* the Query as it was: not finished, holding its statement, current_ still
\* the row decoded before, current() still an iterator on the Query; and an
\* advance makes at most one engine step.
C35_FailedAdvanceKeepsQuery ==
    [][qout'.op = "++" =>
          /\ cursor' \in {cursor, cursor + 1}
          /\ qout'.err \in {"DatabaseBusy", "DatabaseError"} =>
                /\ qstate' = "built"
                /\ ~finished' /\ fetch_stmt_'
                /\ current_' = current_ /\ current_'.some
                /\ current' = "this"
                /\ it' = it
                /\ cursor' = cursor
                /\ decoded' = decoded]_vars

\* an advance failed with DatabaseBusy after an earlier advance succeeded
C35_Witness ==
    /\ qstate = "built"
    /\ qout.op = "++"
    /\ qout.err = "DatabaseBusy"
    /\ advances >= 1
    /\ fetch_stmt_
    /\ current_ = Some(f_(rows[cursor]))

(***************************************************************************)
(* Properties of the post-increment loop over a Query (SpecLoop).          *)
(***************************************************************************)
\* C33: the loop  it = begin(); while (it != end()) { use *it; it++; }  over
\* N rows ends after exactly N advances: once the statement returned Done,
\* `it` equals end(), no further advance is made and nothing is stepped or
\* dereferenced in an empty state; and the iterator that it++ returns
\* designates the position `it` had before the advance.
C33_PostIncrementLoop ==
    /\ qstate # "crashed"
    /\ qstate = "built" =>
          /\ finished => IterEq(it, end_)
          /\ advances <= Len(rows)
          /\ cursor <= Len(rows) + 1
          /\ (qout.op = "it++" /\ qout.err \in {"Row", "Done"}) => qout.ret = "this"

(***************************************************************************)
(* Properties of the envelope lifecycle (Spec).                            *)
(***************************************************************************)
\* C1 as claimed: an envelope written by create, from_memory or convert_db
\* (or replaced by set_metadata) and read back by open or from_db on the same
\* database is equal, field for field, to the envelope that was written.
C1_EnvelopeRoundTrip ==
    (last.op \in {"open", "from_db"} /\ last.err = "ok" /\ written.some) =>
        rdb.md_ = written.v

\* C2 as claimed: whenever a ResourceDatabase exists, metadata() is what a
\* fresh read of the stored row returns.
C2_NoDirtyCache ==
    rdb.some =>
        LET r == read_metadata(store.table, "none") IN
        r.err = "ok" /\ r.metadata = rdb.md_

\* C3 as claimed: the _metadata table, if it exists, holds exactly one row,
\* also after an operation that failed partway.
C3_ExactlyOneRow ==
    store.table.present => Len(store.table.rows) = 1

\* C10: open or from_db on a database the engine could open and that has no
\* _metadata table ends in ReadMetadataError, and no ResourceDatabase (nor
\* its connection) is left to the caller.
C10_NoTableReadFails ==
    (last.op \in {"open", "from_db"} /\ ~last.had_table
        /\ last.err # "DatabaseNotFound") =>
        /\ last.err = "ReadMetadataError"
        /\ ~rdb.some
        /\ conn.owner = "none"

\* C10 witness: from_db was called on a database without _metadata table and
\* threw ReadMetadataError.
C10_Witness ==
    /\ last.op = "from_db"
    /\ ~last.had_table
    /\ last.err = "ReadMetadataError"
    /\ ~rdb.some

\* C11: convert_db on a database that already has the _metadata table ends
\* in WriteMetadataError, no ResourceDatabase is made, and the table is left
\* as it was: the call changes nothing in the database (a private in-memory
\* database goes away with the connection the call consumed).
C11_ConvertTwiceFails ==
    [][(last'.op = "convert_db" /\ store.table.present) =>
          /\ last'.err = "WriteMetadataError"
          /\ ~rdb'.some
          /\ store' = Release(store)]_vars

\* C11 witness: convert_db was refused on a file that carries an envelope,
\* and the file still holds its one row.
C11_Witness ==
    /\ last.op = "convert_db"
    /\ last.had_table
    /\ last.err = "WriteMetadataError"
    /\ store.kind = "file"
    /\ store.table.present
    /\ Len(store.table.rows) = 1
    /\ written.some
    /\ store.table.rows[1] =
          <<IntCell(ToInt32(metadata_version))>> \o write_metadata(written.v)

\* C17 as claimed: a transient failure of the engine (busy, I/O error) during
\* from_db or convert_db reaches the caller as a DatabaseError: for from_db
\* when the step that reads the table fails, for convert_db when the insert
\* into the table it has just created fails.
C17_TransientIsDatabaseError ==
    /\ (/\ last.op = "from_db"
        /\ last.had_table
        /\ last.fault \in {"BUSY", "ERROR"}) =>
          last.err \in {"DatabaseError", "DatabaseBusy"}
    /\ (/\ last.op = "convert_db"
        /\ ~last.had_table
        /\ store.table.present
        /\ last.fault \in {"BUSY", "ERROR"}) =>
          last.err \in {"DatabaseError", "DatabaseBusy"}

(***************************************************************************)
(* Properties of reading and replacing a stored envelope (SpecStored).     *)
(***************************************************************************)
\* C12 as claimed: open or from_db on a table without the metadata_version
\* column that holds one row succeeds when the engine reports no failure,
\* caches schema version 0, returns type, format_version, tool_name,
\* tool_info and generation_date as they are stored, and sets tool_version to
\* "1.0.0-prerelease".
C12_LegacyRead ==
    (/\ last.op \in {"open", "from_db"}
     /\ last.fault = "none"
     /\ store.table.present
     /\ ~store.table.versioned
     /\ Len(store.table.rows) = 1) =>
        LET row == store.table.rows[1] IN
        /\ last.err = "ok"
        /\ rdb.some
        /\ rdb.md_version_ = 0
        /\ rdb.md_.type = ToUint32(row[1].i)
        /\ rdb.md_.format_version = row[2].s
        /\ rdb.md_.tool_name = row[3].s
        /\ rdb.md_.tool_version = Prerelease
        /\ rdb.md_.tool_info = row[4].s
        /\ rdb.md_.generation_date = ToUint64(row[5].i)

\* C13: set_metadata throws WriteMetadataError exactly when md_version_ is
\* not metadata_version, and then changes neither the database nor the
\* cached envelope; a ResourceDatabase that create, from_memory or convert_db
\* returned, or that was read from an envelope this run wrote, has
\* md_version_ = metadata_version.
C13_SetMetadataVersionGuard ==
    [][/\ last'.op = "set_metadata" =>
            /\ (last'.err = "WriteMetadataError") <=>
                   (rdb.md_version_ # metadata_version)
            /\ last'.err = "WriteMetadataError" => (store' = store /\ rdb' = rdb)
       /\ (last'.op \in {"create", "from_memory", "convert_db"} /\ last'.err = "ok") =>
            rdb'.md_version_ = metadata_version
       /\ (rdb'.some /\ written'.some) => rdb'.md_version_ = metadata_version]_vars

\* C13 witness: set_metadata was refused on a ResourceDatabase opened at
\* schema version 0.
C13_Witness ==
    /\ last.op = "set_metadata"
    /\ last.err = "WriteMetadataError"
    /\ rdb.some
    /\ rdb.md_version_ = 0
    /\ ~store.table.versioned

\* C14 as claimed: when the table has the metadata_version column and the
\* number stored in it is greater than metadata_version, open and from_db
\* end in ReadMetadataError and return no ResourceDatabase.
C14_FutureVersionRejected ==
    (/\ last.op \in {"open", "from_db"}
     /\ last.fault # "open"
     /\ store.table.present
     /\ store.table.versioned
     /\ Len(store.table.rows) >= 1
     /\ store.table.rows[1][1].i > metadata_version) =>
        /\ last.err = "ReadMetadataError"
        /\ ~rdb.some

\* C15: open and from_db return a ResourceDatabase only if the _metadata
\* table holds exactly one row; on a table with no row, or with two or more,
\* they end in ReadMetadataError.
C15_ExactlyOneRowToRead ==
    /\ (last.op \in {"open", "from_db"} /\ last.err = "ok") =>
          (store.table.present /\ Len(store.table.rows) = 1)
    /\ (/\ last.op \in {"open", "from_db"}
        /\ last.fault # "open"
        /\ store.table.present
        /\ Len(store.table.rows) # 1) =>
          (last.err = "ReadMetadataError" /\ ~rdb.some)

\* C15 witness: from_db, with no engine failure, was refused on a table that
\* holds two rows of the current version.
C15_Witness ==
    /\ last.op = "from_db"
    /\ last.fault = "none"
    /\ last.err = "ReadMetadataError"
    /\ store.table.versioned
    /\ Len(store.table.rows) = 2
    /\ store.table.rows[1][1].i = metadata_version

C28_SevenColumnsInOrder ==
    (/\ last.op \in {"open", "from_db"}
     /\ last.err = "ok"
     /\ store.table.versioned
     /\ Len(store.table.rows) = 1
     /\ store.table.rows[1][1].i \in 0..metadata_version) =>
        LET row == store.table.rows[1] IN
        /\ rdb.some
        /\ rdb.md_ = write(column_u32(row[2]), column_text(row[3]), column_text(row[4]),
                           column_text(row[5]), column_text(row[6]), column_u64(row[7]))

\* C29: while the _metadata table has no metadata_version column, no
\* operation changes its schema or its rows, and every set_metadata call
\* fails with WriteMetadataError.
C29_NoImplicitUpgrade ==
    [][(store.table.present /\ ~store.table.versioned) =>
          /\ store'.table = store.table
          /\ last'.op = "set_metadata" => last'.err = "WriteMetadataError"]_vars

\* set_metadata was refused on a legacy envelope that open or from_db read
C29_Witness ==
    /\ last.op = "set_metadata"
    /\ last.fault = "none"
    /\ last.err = "WriteMetadataError"
    /\ rdb.some
    /\ rdb.md_version_ = 0
    /\ rdb.md_.tool_version = Prerelease
    /\ store.table.present
    /\ ~store.table.versioned
    /\ Len(store.table.rows) = 1
    /\ Len(store.table.rows[1]) = 5

(***************************************************************************)
(* Properties of failing Statement calls (SpecStmt).                       *)
(***************************************************************************)

\* C26: a bind whose engine call reports a failure throws DatabaseError
\* with a message that contains the parameter name the caller passed, and
\* changes neither the bindings nor the cursor of a statement.
C26_BindFailure ==
    [][\A index \in Indexes, name \in Names :
          (\/ \E policy \in Policies : Bind(policy, index, name)
           \/ \E value \in U32 : BindThrow32(index, value, name)
           \/ bind_null(index, name))
          /\ out'.rc \notin {"OK", "none"}
          => /\ out'.err = "DatabaseError"
             /\ \E i \in DOMAIN out'.msg : out'.msg[i] = name
             /\ bindings' = bindings
             /\ stmtState' = stmtState
             /\ fetchRow' = fetchRow]_vars

\* a bind refused for its index, on a statement that holds a binding
C26_Witness ==
    /\ out.op \in Policies \cup {"throw_u32", "bind_null"}
    /\ out.rc = "RANGE"
    /\ out.err = "DatabaseError"
    /\ bindings[1].policy # "none"

\* C32: bind_arg_throw with a 32-bit unsigned value throws OutOfBoundsError
\* exactly when the value is above INT32_MAX, and then binds nothing and
\* does not call the engine; a value up to INT32_MAX that the engine accepts
\* is bound as it is.
C32_ThrowPolicy32 ==
    out.op = "throw_u32" =>
        /\ (out.err = "OutOfBoundsError") <=> (out.val > INT32_MAX)
        /\ out.err = "OutOfBoundsError" => (~out.changed /\ out.rc = "none")
        /\ (out.val <= INT32_MAX /\ out.rc = "OK") =>
              /\ out.err = "ok"
              /\ bindings[out.ref].policy = "throw_u32"
              /\ bindings[out.ref].cell = IntCell(out.val)

\* C32 witness: INT32_MAX + 1 was refused while INT32_MAX is bound
C32_Witness ==
    /\ out.op = "throw_u32"
    /\ out.val = INT32_MAX + 1
    /\ out.err = "OutOfBoundsError"
    /\ bindings[1].policy = "throw_u32"
    /\ bindings[1].cell = IntCell(INT32_MAX)

\* C27: every result of an engine call other than success is surfaced to
\* the caller as an error.
C27_NoErrorSwallowed ==
    out.rc \notin {"OK", "ROW", "DONE", "none"} => out.err \notin {"ok", "Row", "Done"}

(***************************************************************************)
(* Further properties of the Query (SpecQuery).                             *)
(***************************************************************************)

\* C25: two iterators compare equal exactly when both are at the
\* finished/end position (a default iterator, or any iterator of a Query
\* that has finished) or both reference the same Query; so the iterator
\* the caller kept from begin() equals end() once the Query is finished.
C25_IteratorEquality ==
    qstate = "built" =>
        /\ IterEq(it, end_) <=> (it = "null" \/ finished)
        /\ IterEq(it, current) <=>
              \/ ((it = "null" \/ finished) /\ (current = "null" \/ finished))
              \/ (it = "this" /\ current = "this")

\* C30: the Query holds its statement exactly until the step that returns
\* Done; from then on it stays finished under every operation and the
\* statement is not stepped again.
C30_StatementHeldUntilDone ==
    [][qstate' = "built" =>
          /\ fetch_stmt_' <=> cursor' <= Len(rows')
          /\ finished' <=> ~fetch_stmt_'
          /\ (qstate = "built" /\ ~fetch_stmt_) =>
                (finished' /\ ~fetch_stmt_' /\ cursor' = cursor)]_vars

\* a Query over at least one row that finished by an advance and was asked
\* for begin() afterwards
C30_Witness ==
    /\ qstate = "built"
    /\ Len(rows) >= 1
    /\ advances = Len(rows)
    /\ cursor = Len(rows) + 1
    /\ finished
    /\ qout.op = "begin"
    /\ it = end_

(***************************************************************************)
(* Properties of opening a database (Spec).                                *)
(***************************************************************************)

\* C22: in every open mode, a Database open whose engine call fails (the
\* engine refuses the open, or the file is missing and the mode does not
\* create it) throws DatabaseNotFound and leaves no Database object and no
\* file behind; an open the engine accepts yields the Database.
C22_OpenFailureIsNotFound ==
    [][\A mode \in OpenModes, fault \in OpenFaults :
          DbOpen(mode, fault) =>
              IF fault = "open" \/ (mode # "Create" /\ ~store.exists)
              THEN /\ last'.err = "DatabaseNotFound"
                   /\ conn'.owner = "none"
                   /\ store' = store
              ELSE /\ last'.err = "ok"
                   /\ conn'.owner = "db"]_vars

\* the engine refused to open a file that exists
C22_Witness ==
    /\ last.op = "Database"
    /\ last.fault = "open"
    /\ store.exists
    /\ last.err = "DatabaseNotFound"
    /\ conn.owner = "none"

\* C23: opening an existing database file in Create mode truncates it:
\* after a successful open it holds no _metadata table and no rows.
C23_CreateModeTruncates ==
    [][\A fault \in OpenFaults :
          (DbOpen("Create", fault) /\ store.exists /\ last'.err = "ok")
              => store'.table = NoTable]_vars

\* C24: create fails with WriteMetadataError whenever a database already
\* exists at the path, with or without an envelope, and succeeds, with the
\* envelope stamped from its argument, only when none existed.
C24_CreateOnExistingFails ==
    [][\A metadata \in Metadatas :
          RdbCreate(metadata, "none") =>
              /\ store.exists => last'.err = "WriteMetadataError"
              /\ last'.err = "ok" =>
                    /\ ~store.exists
                    /\ store'.table.present
                    /\ store'.table.versioned
                    /\ Len(store'.table.rows) = 1
                    /\ rdb'.md_ = metadata]_vars

(***************************************************************************)
(* Properties of handle ownership (SpecOwn).                               *)
(***************************************************************************)

\* C21: every engine handle is owned by at most one Database object at a
\* time and is closed exactly once: never twice, never while an object
\* still owns it, and, once every object is destroyed, every allocated
\* handle has been closed unless release() handed it to the caller and no
\* object took it over since.
C21_ExclusiveOwnership ==
    \A h \in 1..nhandles :
        /\ Cardinality(Owners(h)) <= 1
        /\ closed[h] <= 1
        /\ closed[h] = 1 => Owners(h) = {}
        /\ alive = {} => (closed[h] = 1 \/ (h \in raw /\ closed[h] = 0))

\* C34: when from_db or convert_db fails on a Database that alone owns an
\* open handle, the handle is closed once by the failing call (it is not
\* closed again and not left open), no object owns it afterwards and the
\* Database the caller moved from is empty.
C34_FailedDowncastConsumes ==
    [][\A db \in Objects, o \in Objects, result \in DowncastResults :
          (/\ DatabaseDowncast(db, o, result)
           /\ result[2] # "ok"
           /\ db_[db] # 0
           /\ Owners(db_[db]) = {db}
           /\ closed[db_[db]] = 0)
          => /\ closed'[db_[db]] = 1
             /\ db_'[db] = 0
             /\ db \in alive'
             /\ {x \in alive' : db_'[x] = db_[db]} = {}
             /\ alive' = alive]_vars

\* convert_db failed: the handle it was given is closed, the caller's
\* object is still there and empty
C34_Witness ==
    /\ last.op = "convert_db"
    /\ last.err = "WriteMetadataError"
    /\ nhandles = 1
    /\ closed[1] = 1
    /\ Owners(1) = {}
    /\ \E db \in alive : db_[db] = 0

====
